---- MODULE Spec2Model ----
(***************************************************************************)
(* PottsKMC post-processing (src/api/experiments.py): PottsExperiment's    *)
(* log parser and PottsResult's trajectory loading, time-weighted          *)
(* estimators, cached observables and slicing, as a state machine over a   *)
(* store of PottsResult objects.                                           *)
(*                                                                         *)
(* Numbers.  The program computes in float64.  Here a number is an exact   *)
(* fraction <<n, d>> in lowest terms with d > 0, and every non-finite      *)
(* float (inf, -inf, nan) is the one value NonFinite == <<0, 0>>.  The     *)
(* program only ever divides by totalSampleTime and its square, which are  *)
(* sums of finite inputs, so a non-finite value is absorbing under every   *)
(* operation used.  Rounding is not modelled.  A standard error, which the *)
(* program obtains with ** 0.5, is represented by its square.              *)
(***************************************************************************)
EXTENDS Integers, Sequences, FiniteSets, TLC

VARIABLES results, heap, outcome, calls

vars == <<results, heap, outcome, calls>>

\* ------------------------------------------------------------ bounds
\* frames (data rows) of a trajectory artifact
MaxFrames == 3
\* dwell times are drawn from 1..MaxDwell
MaxDwell == 2
\* recordFreq is drawn from 1..MaxRecordFreq
MaxRecordFreq == 2
\* PottsResult objects alive at once (a loaded result and its slices)
MaxResults == 2
\* method calls a client makes on the results it has constructed
MaxCalls == 2

\* the lattice shape (N, M) every log of the model declares
LatticeShape == <<2, 2>>

\* ------------------------------------------------------------ numbers
Abs(x) == IF x < 0 THEN -x ELSE x

RECURSIVE GCD(_, _)
GCD(a, b) == IF b = 0 THEN a ELSE GCD(b, a % b)

NonFinite == <<0, 0>>

IsFinite(x) == x[2] # 0

Norm(n, d) ==
    IF d = 0 THEN NonFinite
    ELSE LET g == GCD(Abs(n), Abs(d))
             s == IF d < 0 THEN -1 ELSE 1
         IN  <<(s * n) \div g, (s * d) \div g>>

Num(k) == <<k, 1>>

FAdd(x, y) ==
    IF IsFinite(x) /\ IsFinite(y)
    THEN LET g == GCD(x[2], y[2])
         IN  Norm(x[1] * (y[2] \div g) + y[1] * (x[2] \div g), (x[2] \div g) * y[2])
    ELSE NonFinite

FNeg(x) == <<-x[1], x[2]>>

FSub(x, y) == FAdd(x, FNeg(y))

FMul(x, y) ==
    IF IsFinite(x) /\ IsFinite(y)
    THEN LET g == GCD(Abs(x[1]), y[2])
             h == GCD(Abs(y[1]), x[2])
         IN  <<(x[1] \div g) * (y[1] \div h), (x[2] \div h) * (y[2] \div g)>>
    ELSE NonFinite

\* x / y in float64: a zero divisor gives inf or nan, never an exception
FDiv(x, y) ==
    IF IsFinite(x) /\ IsFinite(y) /\ y[1] # 0
    THEN FMul(x, IF y[1] < 0 THEN <<-y[2], -y[1]>> ELSE <<y[2], y[1]>>)
    ELSE NonFinite

FSq(x) == FMul(x, x)

RECURSIVE FSum(_)
FSum(s) == IF s = <<>> THEN Num(0) ELSE FAdd(s[1], FSum(Tail(s)))

\* an array held by value: the function f with every element computed once
Arr(f) == f @@ <<>>

\* ------------------------------------------------------------ lattices
Rows(p) == 0 .. (p.N - 1)
Cols(p) == 0 .. (p.M - 1)

\* ndarray.mean(axis=(1,2)) of one frame: the mean over all N*M sites
SiteMean(p, lat) ==
    FDiv(FSum([k \in 1 .. p.N * p.M |-> lat[(k - 1) \div p.M][(k - 1) % p.M]]),
         Num(p.N * p.M))

\* np.roll(np.roll(x, -i, axis=rows), -j, axis=cols): out[a][b] = x[a+i][b+j], cyclic
Roll(p, lat, i, j) ==
    Arr([a \in Rows(p) |-> Arr([b \in Cols(p) |-> lat[(a + i) % p.N][(b + j) % p.M]])])

\* an integer lattice as float64
AsFloat(p, lat) == Arr([a \in Rows(p) |-> Arr([b \in Cols(p) |-> Num(lat[a][b])])])

\* ------------------------------------------------------------ estimators
\* self.trajT[-1] + self.trajDt[-1] - self.trajT[0]; IndexError on no frames
totalTime(r) ==
    LET n == Len(r.trajT) IN r.trajT[n] + r.trajDt[n] - r.trajT[1]

RECURSIVE IntSum(_)
IntSum(s) == IF s = <<>> THEN 0 ELSE s[1] + IntSum(Tail(s))

\* calculate_mean of a quantity with one value per frame
calculate_mean(r, quantity) ==
    FDiv(FSum([t \in 1 .. Len(quantity) |-> FMul(quantity[t], Num(r.trajDt[t]))]),
         Num(r.totalSampleTime))

\* calculate_mean of a quantity with one lattice per frame (dwell times broadcast)
calculate_mean_sites(r, quantity) ==
    Arr([a \in Rows(r.params) |-> Arr([b \in Cols(r.params) |->
        calculate_mean(r, Arr([t \in 1 .. Len(quantity) |-> quantity[t][a][b]]))])])

calculate_var(r, quantity) ==
    LET mean == calculate_mean(r, quantity)
    IN  calculate_mean(r, Arr([t \in 1 .. Len(quantity) |-> FSq(FSub(quantity[t], mean))]))

calculate_var_of_mean(r, quantity) ==
    LET mean == calculate_mean(r, quantity)
        netQuantity == Arr([t \in 1 .. Len(quantity) |-> FSub(quantity[t], mean)])
    IN  FDiv(FSum([t \in 1 .. Len(quantity) |->
                      FSq(FMul(netQuantity[t], Num(r.trajDt[t])))]),
             FSq(Num(r.totalSampleTime)))

Energy(r) == Arr([t \in 1 .. Len(r.trajEnergy) |-> Num(r.trajEnergy[t])])

\* ------------------------------------------------------------ observables
\* the (value, std) pair recalculate_average_energy stores
average_energy(r) ==
    LET trajEnergy == Energy(r)
    IN  <<calculate_mean(r, trajEnergy), calculate_var_of_mean(r, trajEnergy)>>

\* the (value, std) pair recalculate_heat_capacity stores
heat_capacity(r) ==
    LET trajEnergy == Energy(r)
        meanE == calculate_mean(r, trajEnergy)
        netE2 == Arr([t \in 1 .. Len(trajEnergy) |-> FSq(FSub(trajEnergy[t], meanE))])
        varH == calculate_mean(r, netE2)
        varH_var == calculate_var_of_mean(r, netE2)
        factor == FDiv(Num(r.kB), FMul(Num(r.params.N * r.params.M), FSq(Num(r.params.T))))
    IN  <<FMul(varH, factor), FMul(varH_var, FSq(factor))>>

\* the (value, std) pair recalculate_magnetization stores
magnetization(r) ==
    LET mean1M == Arr([t \in 1 .. Len(r.traj) |->
                      SiteMean(r.params, AsFloat(r.params, r.traj[t]))])
    IN  <<calculate_mean(r, mean1M),
          FDiv(calculate_var_of_mean(r, mean1M), Num(r.params.N * r.params.M))>>

\* the correlator without its aveSigma * aveSigmaShifted term (not connected)
_calculate_spatial_correlation_raw(r, i, j) ==
    LET p == r.params
        traj == Arr([t \in 1 .. Len(r.traj) |-> AsFloat(p, r.traj[t])])
        shiftedTraj == Arr([t \in 1 .. Len(traj) |-> Roll(p, traj[t], i, j)])
        netCorrTraj == Arr([t \in 1 .. Len(traj) |->
            Arr([a \in Rows(p) |-> Arr([b \in Cols(p) |->
                FMul(shiftedTraj[t][a][b], traj[t][a][b])])])])
        corrMean == Arr([t \in 1 .. Len(traj) |-> SiteMean(p, netCorrTraj[t])])
    IN  <<calculate_mean(r, corrMean),
          FDiv(calculate_var_of_mean(r, corrMean), Num(p.N * p.M))>>

_calculate_spatial_correlation(r, i, j) ==
    LET p == r.params
        traj == Arr([t \in 1 .. Len(r.traj) |-> AsFloat(p, r.traj[t])])
        shiftedTraj == Arr([t \in 1 .. Len(traj) |-> Roll(p, traj[t], i, j)])
        aveSigma == calculate_mean_sites(r, traj)
        aveSigmaShifted == Roll(p, aveSigma, i, j)
        netCorrTraj == Arr([t \in 1 .. Len(traj) |->
            Arr([a \in Rows(p) |-> Arr([b \in Cols(p) |->
                FSub(FMul(shiftedTraj[t][a][b], traj[t][a][b]),
                     FMul(aveSigma[a][b], aveSigmaShifted[a][b]))])])])
        corrMean == Arr([t \in 1 .. Len(traj) |-> SiteMean(p, netCorrTraj[t])])
    IN  <<calculate_mean(r, corrMean),
          FDiv(calculate_var_of_mean(r, corrMean), Num(p.N * p.M))>>

\* the (correlations, correlations_std) pair of (Nmax, Mmax) arrays
spatial_correlation(r, Nmax, Mmax) ==
    LET c == Arr([i \in 0 .. Nmax - 1 |-> Arr([j \in 0 .. Mmax - 1 |->
                 _calculate_spatial_correlation(r, i, j)])])
    IN  <<Arr([i \in 0 .. Nmax - 1 |-> Arr([j \in 0 .. Mmax - 1 |-> c[i][j][1]])]),
          Arr([i \in 0 .. Nmax - 1 |-> Arr([j \in 0 .. Mmax - 1 |-> c[i][j][2]])])>>

\* the (Lambda, Lambda_std) pair of length-Nmax arrays
lambda(r, Nmax) ==
    LET VCorr == Arr([i \in 0 .. Nmax - 1 |-> _calculate_spatial_correlation(r, i, 0)])
        HCorr == Arr([j \in 0 .. Nmax - 1 |-> _calculate_spatial_correlation(r, 0, j)])
    IN  <<Arr([k \in 0 .. Nmax - 1 |-> FDiv(FAdd(VCorr[k][1], HCorr[k][1]), Num(2))]),
          Arr([k \in 0 .. Nmax - 1 |-> FDiv(FAdd(VCorr[k][2], HCorr[k][2]), Num(2))])>>

\* ------------------------------------------------------------ ParameterSet
\* PARAM_TRANS: the coercion registered for each field name
PARAM_TRANS ==
    [N |-> "int", M |-> "int", q |-> "int", steps |-> "int", recordFreq |-> "int",
     randomSeed |-> "int", J |-> "float", B |-> "float", T |-> "float",
     tau |-> "float", jobName |-> "str"]

\* A value as written in the log is a token <<lexical class, number>>:
\* "int" (digits), "float" (a decimal) or "word" (anything else).
\* int(v), float(v), str(v): the coerced value, or ValueError
Coerce(type, tok) ==
    CASE type = "int" ->
           IF tok[1] = "int" THEN [exc |-> "none", val |-> tok[2]]
           ELSE [exc |-> "ValueError", val |-> 0]
      [] type = "float" ->
           IF tok[1] \in {"int", "float"} THEN [exc |-> "none", val |-> tok[2]]
           ELSE [exc |-> "ValueError", val |-> 0]
      [] OTHER -> [exc |-> "none", val |-> tok[2]]

\* index of the first line equal to "PARAMS\n", 0 when readline() reaches the end
RECURSIVE MarkerFrom(_, _)
MarkerFrom(lines, k) ==
    IF k > Len(lines) THEN 0
    ELSE IF lines[k].kind = "marker" THEN k
    ELSE MarkerFrom(lines, k + 1)

\* the loop over rawParams from line k on: only the lines that match
\* ^\w+\s*=\s*\S+.*$ (kind "param") are seen
RECURSIVE ParseParams(_, _, _)
ParseParams(lines, k, params) ==
    IF k > Len(lines) THEN [exc |-> "none", params |-> params]
    ELSE IF lines[k].kind # "param" THEN ParseParams(lines, k + 1, params)
    ELSE IF lines[k].name \notin DOMAIN PARAM_TRANS
         THEN [exc |-> "KeyError", params |-> params]
    ELSE LET c == Coerce(PARAM_TRANS[lines[k].name], lines[k].tok)
         IN  IF c.exc # "none" THEN [exc |-> c.exc, params |-> params]
             ELSE ParseParams(lines, k + 1, (lines[k].name :> c.val) @@ params)

\* PottsExperiment.from_log: the parameter set, or the exception raised
from_log(logFile) ==
    LET m == MarkerFrom(logFile, 1)
    IN  IF m = 0 THEN [exc |-> "ValueError", params |-> <<>>]
        ELSE LET parsed == ParseParams(logFile, m + 1, <<>>)
             IN  IF parsed.exc # "none" THEN parsed
                 ELSE IF DOMAIN parsed.params # DOMAIN PARAM_TRANS
                      THEN [exc |-> "ValueError", params |-> parsed.params]
                 ELSE parsed

\* ------------------------------------------------------------ TrajectoryDecoder
\* the attributes _load_fullstate_traj assigns; np.loadtxt returns a 1-D array
\* for fewer than two data rows, and rawTraj[:, 0] is then an IndexError
_load_fullstate_traj(r, trajFile) ==
    IF Len(trajFile.rows) < 2 THEN [exc |-> "IndexError", r |-> r]
    ELSE [exc |-> "none",
          r |-> [r EXCEPT
                   !.trajIdx = [k \in 1 .. Len(trajFile.rows) |-> trajFile.rows[k].idx],
                   !.traj = [k \in 1 .. Len(trajFile.rows) |-> trajFile.rows[k].state],
                   !.trajT = [k \in 1 .. Len(trajFile.rows) |-> trajFile.rows[k].t],
                   !.trajDt = [k \in 1 .. Len(trajFile.rows) |-> trajFile.rows[k].dt],
                   !.trajEnergy = [k \in 1 .. Len(trajFile.rows) |-> trajFile.rows[k].e]]]

\* _load_onlychange_traj: np.array(map(int, ...), dtype=np.int64) is handed a map
\* object, not a list, and raises TypeError before any attribute is assigned
_load_onlychange_traj(r, trajFile) ==
    IF ~trajFile.initialKey THEN [exc |-> "KeyError", r |-> r]
    ELSE [exc |-> "TypeError", r |-> r]

\* load_traj with the two totals taken the other way round
loaded_totalSampleTime_swapped(trajType, r) ==
    IF trajType = "FullState" THEN totalTime(r) ELSE IntSum(r.trajDt)

\* the total load_traj assigns after decoding an artifact of type trajType
loaded_totalSampleTime(trajType, r) ==
    IF trajType = "FullState" THEN IntSum(r.trajDt) ELSE totalTime(r)

\* PottsResult.load_traj: the object after the call, or the exception raised
load_traj(r, trajFile) ==
    IF trajFile.mark \notin {"FullState", "OnlyChange"} THEN [exc |-> "KeyError", r |-> r]
    ELSE LET d == IF trajFile.mark = "FullState" THEN _load_fullstate_traj(r, trajFile)
                  ELSE _load_onlychange_traj(r, trajFile)
         IN  IF d.exc # "none" THEN d
             ELSE [exc |-> "none",
                   r |-> [d.r EXCEPT !.totalSampleTime =
                                         loaded_totalSampleTime(trajFile.mark, d.r)]]

\* ------------------------------------------------------------ object store
(***************************************************************************)
(* results[k] is the k-th PottsResult object; its properties attribute is  *)
(* a reference into heap, the store of dict objects.  outcome records the  *)
(* last call: the method, the receiver, the argument, whether the name the *)
(* call is about was in the cache when it was made, the value returned     *)
(* and the exception raised ("none" when the call returned).               *)
(***************************************************************************)
Outcome(op, self, arg, cached, ret, exc) ==
    [op |-> op, self |-> self, arg |-> arg, cached |-> cached, ret |-> ret, exc |-> exc]

\* None, and the arguments that are not None, as tuples
None == <<>>
Some(x) == <<x>>

Properties(self) == heap[results[self].properties]

\* self.properties[name] = value
SetItem(self, name, value) ==
    heap' = [heap EXCEPT ![results[self].properties] = (name :> value) @@ @]

\* newItem = self: no copy, the view is the source object itself
deepcopy_alias(self) == self

\* copy.deepcopy(self): a new object, whose identity is the next free one
deepcopy(self) == Len(results) + 1

\* the store with object id bound to rec
Store(objs, id, rec) ==
    IF id = Len(objs) + 1 THEN Append(objs, rec) ELSE [objs EXCEPT ![id] = rec]

\* ------------------------------------------------------------ PottsExperiment
\* PottsExperiment.from_log called by a client
FromLog(logFile) ==
    /\ results = <<>>
    /\ LET e == from_log(logFile)
       IN  outcome' = Outcome("from_log", 0, logFile, FALSE, e.params, e.exc)
    /\ UNCHANGED <<results, heap, calls>>

\* ------------------------------------------------------------ PottsResult
\* PottsResult.__init__: from_log, an empty properties dict, load_traj
__init__(logFile, trajFile) ==
    /\ results = <<>>
    /\ LET e == from_log(logFile)
           blank == [params |-> e.params, kB |-> 1, properties |-> Len(heap) + 1,
                     trajIdx |-> <<>>, traj |-> <<>>, trajT |-> <<>>, trajDt |-> <<>>,
                     trajEnergy |-> <<>>, totalSampleTime |-> 0]
           l == load_traj(blank, trajFile)
       IN  IF e.exc # "none"
           THEN /\ outcome' = Outcome("from_log", 0, logFile, FALSE, e.params, e.exc)
                /\ UNCHANGED <<results, heap>>
           ELSE IF l.exc # "none"
           THEN /\ outcome' = Outcome("load_traj", 0, trajFile, FALSE, None, l.exc)
                /\ UNCHANGED <<results, heap>>
           ELSE /\ results' = Append(results, l.r)
                /\ heap' = Append(heap, <<>>)
                /\ outcome' = Outcome("load_traj", 1, trajFile, FALSE, None, "none")

\* load_traj called again on a constructed result
LoadTraj(self, trajFile) ==
    /\ self \in DOMAIN results
    /\ LET l == load_traj(results[self], trajFile)
       IN  /\ results' = [results EXCEPT ![self] = l.r]
           /\ outcome' = Outcome("load_traj", self, trajFile, FALSE, None, l.exc)
    /\ UNCHANGED heap

recalculate_average_energy(self) ==
    /\ self \in DOMAIN results
    /\ SetItem(self, "aveEnergy", average_energy(results[self]))
    /\ outcome' = Outcome("recalculate_average_energy", self, None,
                          "aveEnergy" \in DOMAIN Properties(self),
                          average_energy(results[self]), "none")
    /\ UNCHANGED results

get_average_energy(self) ==
    /\ self \in DOMAIN results
    /\ IF "aveEnergy" \in DOMAIN Properties(self)
       THEN /\ outcome' = Outcome("get_average_energy", self, None, TRUE,
                                  Properties(self)["aveEnergy"], "none")
            /\ UNCHANGED heap
       ELSE /\ SetItem(self, "aveEnergy", average_energy(results[self]))
            /\ outcome' = Outcome("get_average_energy", self, None, FALSE,
                                  average_energy(results[self]), "none")
    /\ UNCHANGED results

recalculate_heat_capacity(self) ==
    /\ self \in DOMAIN results
    /\ SetItem(self, "heatCapacity", heat_capacity(results[self]))
    /\ outcome' = Outcome("recalculate_heat_capacity", self, None,
                          "heatCapacity" \in DOMAIN Properties(self),
                          heat_capacity(results[self]), "none")
    /\ UNCHANGED results

get_heat_capacity(self) ==
    /\ self \in DOMAIN results
    /\ IF "heatCapacity" \in DOMAIN Properties(self)
       THEN /\ outcome' = Outcome("get_heat_capacity", self, None, TRUE,
                                  Properties(self)["heatCapacity"], "none")
            /\ UNCHANGED heap
       ELSE /\ SetItem(self, "heatCapacity", heat_capacity(results[self]))
            /\ outcome' = Outcome("get_heat_capacity", self, None, FALSE,
                                  heat_capacity(results[self]), "none")
    /\ UNCHANGED results

recalculate_magnetization(self) ==
    /\ self \in DOMAIN results
    /\ SetItem(self, "magnetization", magnetization(results[self]))
    /\ outcome' = Outcome("recalculate_magnetization", self, None,
                          "magnetization" \in DOMAIN Properties(self),
                          magnetization(results[self]), "none")
    /\ UNCHANGED results

get_magnetication(self) ==
    /\ self \in DOMAIN results
    /\ IF "magnetization" \in DOMAIN Properties(self)
       THEN /\ outcome' = Outcome("get_magnetication", self, None, TRUE,
                                  Properties(self)["magnetization"], "none")
            /\ UNCHANGED heap
       ELSE /\ SetItem(self, "magnetization", magnetization(results[self]))
            /\ outcome' = Outcome("get_magnetication", self, None, FALSE,
                                  magnetization(results[self]), "none")
    /\ UNCHANGED results

\* (Nmax, Mmax) of a cutoff: None, a scalar <<c>> or a pair <<a, b>>
CorrelationShape(p, cutoff) ==
    IF cutoff = None THEN <<p.N \div 2, p.M \div 2>>
    ELSE IF Len(cutoff) = 1 THEN <<cutoff[1], cutoff[1]>>
    ELSE cutoff

\* returns correlations alone, not the pair it stores
recalculate_spatial_correlation(self, cutoff) ==
    /\ self \in DOMAIN results
    /\ LET shape == CorrelationShape(results[self].params, cutoff)
           entry == spatial_correlation(results[self], shape[1], shape[2])
       IN  /\ SetItem(self, "spatialCorrelation", entry)
           /\ outcome' = Outcome("recalculate_spatial_correlation", self, cutoff,
                                 "spatialCorrelation" \in DOMAIN Properties(self),
                                 entry[1], "none")
    /\ UNCHANGED results

\* with an entry cached the test reads .shape of the stored pair, a tuple:
\* AttributeError
get_spatial_correlation(self, cutoff) ==
    /\ self \in DOMAIN results
    /\ LET shape == CorrelationShape(results[self].params, cutoff)
           entry == spatial_correlation(results[self], shape[1], shape[2])
       IN  IF "spatialCorrelation" \in DOMAIN Properties(self)
           THEN /\ outcome' = Outcome("get_spatial_correlation", self, cutoff, TRUE,
                                      None, "AttributeError")
                /\ UNCHANGED heap
           ELSE /\ SetItem(self, "spatialCorrelation", entry)
                /\ outcome' = Outcome("get_spatial_correlation", self, cutoff, FALSE,
                                      entry[1], "none")
    /\ UNCHANGED results

\* Nmax is bound only when cutoff is None: UnboundLocalError otherwise
recalculate_lambda(self, cutoff) ==
    /\ self \in DOMAIN results
    /\ IF cutoff # None
       THEN /\ outcome' = Outcome("recalculate_lambda", self, cutoff,
                                  "Lambda" \in DOMAIN Properties(self),
                                  None, "UnboundLocalError")
            /\ UNCHANGED heap
       ELSE LET p == results[self].params
                Nmax == IF p.N \div 2 < p.M \div 2 THEN p.N \div 2 ELSE p.M \div 2
            IN  /\ SetItem(self, "Lambda", lambda(results[self], Nmax))
                /\ outcome' = Outcome("recalculate_lambda", self, cutoff,
                                      "Lambda" \in DOMAIN Properties(self),
                                      lambda(results[self], Nmax), "none")
    /\ UNCHANGED results

\* len() of the stored pair is 2, whatever the cached array's length
get_lambda(self, cutoff) ==
    /\ self \in DOMAIN results
    /\ LET p == results[self].params
           Nmax == IF p.N \div 2 < p.M \div 2 THEN p.N \div 2 ELSE p.M \div 2
           cached == "Lambda" \in DOMAIN Properties(self)
       IN  IF cutoff # None
           THEN /\ outcome' = Outcome("get_lambda", self, cutoff, cached,
                                      None, "UnboundLocalError")
                /\ UNCHANGED heap
           ELSE IF cached /\ Nmax = Len(Properties(self)["Lambda"])
           THEN /\ outcome' = Outcome("get_lambda", self, cutoff, cached,
                                      Properties(self)["Lambda"], "none")
                /\ UNCHANGED heap
           ELSE /\ SetItem(self, "Lambda", lambda(results[self], Nmax))
                /\ outcome' = Outcome("get_lambda", self, cutoff, cached,
                                      lambda(results[self], Nmax), "none")
    /\ UNCHANGED results

run_all_analysis(self) ==
    /\ self \in DOMAIN results
    /\ LET r == results[self]
           p == r.params
           Nmax == IF p.N \div 2 < p.M \div 2 THEN p.N \div 2 ELSE p.M \div 2
       IN  heap' = [heap EXCEPT ![r.properties] =
               [aveEnergy |-> average_energy(r),
                heatCapacity |-> heat_capacity(r),
                magnetization |-> magnetization(r),
                spatialCorrelation |-> spatial_correlation(r, p.N \div 2, p.M \div 2),
                Lambda |-> lambda(r, Nmax)] @@ @]
    /\ outcome' = Outcome("run_all_analysis", self, None, FALSE, None, "none")
    /\ UNCHANGED results

\* ------------------------------------------------------------ TrajectoryView
\* the 0-based indices a[start:stop:step] selects from a sequence of length n
\* (slice.indices); step is not 0
SliceIndices(n, slice_) ==
    LET step == IF slice_.step = None THEN 1 ELSE slice_.step[1]
        lower == IF step > 0 THEN 0 ELSE -1
        upper == IF step > 0 THEN n ELSE n - 1
        Clamp(v) == IF v < 0 THEN (IF v + n > lower THEN v + n ELSE lower)
                    ELSE (IF v < upper THEN v ELSE upper)
        start == IF slice_.start = None THEN (IF step < 0 THEN upper ELSE lower)
                 ELSE Clamp(slice_.start[1])
        stop == IF slice_.stop = None THEN (IF step < 0 THEN lower ELSE upper)
                ELSE Clamp(slice_.stop[1])
        count == IF step > 0
                 THEN (IF start < stop THEN (stop - start - 1) \div step + 1 ELSE 0)
                 ELSE (IF stop < start THEN (start - stop - 1) \div (-step) + 1 ELSE 0)
    IN  [k \in 1 .. count |-> start + (k - 1) * step]

\* a[slice_] of a sequence
Sliced(a, slice_) ==
    LET idx == SliceIndices(Len(a), slice_) IN [k \in 1 .. Len(idx) |-> a[idx[k] + 1]]

\* the total __getitem__ assigns to the sliced copy; totalTime raises IndexError
\* on a copy with no frames
sliced_totalSampleTime(r) ==
    IF r.params.recordFreq = 1 THEN totalTime(r) ELSE IntSum(r.trajDt)

__getitem__(self, slice_) ==
    /\ self \in DOMAIN results
    /\ Len(results) < MaxResults
    /\ LET newItem == deepcopy(self)
           cut == [results[self] EXCEPT
                     !.trajIdx = Sliced(@, slice_), !.traj = Sliced(@, slice_),
                     !.trajT = Sliced(@, slice_), !.trajDt = Sliced(@, slice_),
                     !.trajEnergy = Sliced(@, slice_),
                     !.properties = Len(heap) + 1]
       IN  IF slice_.step = Some(0)
           THEN /\ outcome' = Outcome("__getitem__", self, slice_, FALSE, None, "ValueError")
                /\ UNCHANGED <<results, heap>>
           ELSE IF cut.params.recordFreq = 1 /\ cut.trajT = <<>>
           THEN /\ outcome' = Outcome("__getitem__", self, slice_, FALSE, None, "IndexError")
                /\ UNCHANGED <<results, heap>>
           ELSE /\ results' = Store(results, newItem,
                                    [cut EXCEPT !.totalSampleTime = sliced_totalSampleTime(cut)])
                /\ heap' = Append(heap, <<>>)
                /\ outcome' = Outcome("__getitem__", self, slice_, FALSE, Some(newItem), "none")

\* ------------------------------------------------------------ inputs
FieldOrder ==
    <<"N", "M", "q", "steps", "recordFreq", "randomSeed", "J", "B", "T", "tau", "jobName">>

\* the value written for a field in a log whose run used recordFreq rf
FieldToken(name, rf) ==
    CASE name = "N" -> <<"int", LatticeShape[1]>>
      [] name = "M" -> <<"int", LatticeShape[2]>>
      [] name = "q" -> <<"int", 2>>
      [] name = "steps" -> <<"int", MaxFrames * rf>>
      [] name = "recordFreq" -> <<"int", rf>>
      [] name = "randomSeed" -> <<"int", 1234>>
      [] name \in {"J", "T"} -> <<"float", 1>>
      [] name = "B" -> <<"float", 0>>
      [] name = "tau" -> <<"float", 10>>
      [] OTHER -> <<"word", 0>>

ParamLine(name, tok) == [kind |-> "param", name |-> name, tok |-> tok]
TextLine == [kind |-> "text", name |-> "", tok |-> <<"word", 0>>]
MarkerLine == [kind |-> "marker", name |-> "", tok |-> <<"word", 0>>]

AllParamLines(rf) == [k \in 1 .. Len(FieldOrder) |-> ParamLine(FieldOrder[k], FieldToken(FieldOrder[k], rf))]

\* the logs: complete; without the PARAMS line; one field short; with a further
\* name = value line of an unrecognized name; with a value int() rejects
LogVariants == {"complete", "nomarker", "missing", "extra", "badvalue"}

MkLog(variant, rf) ==
    CASE variant = "complete" -> <<TextLine, MarkerLine>> \o AllParamLines(rf)
      [] variant = "nomarker" -> <<TextLine>> \o AllParamLines(rf)
      [] variant = "missing" -> <<TextLine, MarkerLine>> \o Tail(AllParamLines(rf))
      [] variant = "extra" ->
           <<TextLine, MarkerLine>> \o AllParamLines(rf)
               \o <<ParamLine("elapsed", <<"float", 3>>)>>
      [] OTHER ->
           <<TextLine, MarkerLine, ParamLine("N", <<"float", 2>>)>> \o Tail(AllParamLines(rf))

Logs == {MkLog(v, rf) : v \in LogVariants, rf \in 1 .. MaxRecordFreq}

Lattice(a, b, c, d) == [x \in 0 .. 1 |-> [y \in 0 .. 1 |->
    IF x = 0 THEN (IF y = 0 THEN a ELSE b) ELSE (IF y = 0 THEN c ELSE d)]]

\* timestamps of frames with the given dwell times, gap skipped after each frame
RECURSIVE Times(_, _, _)
Times(dts, gap, t0) ==
    IF dts = <<>> THEN <<>> ELSE <<t0>> \o Times(Tail(dts), gap, t0 + dts[1] + gap)

FullStateFile(states, dts, gap, es) ==
    [mark |-> "FullState", initialKey |-> FALSE, initial |-> <<>>,
     rows |-> [k \in 1 .. Len(states) |->
                 [idx |-> k - 1, state |-> states[k], t |-> Times(dts, gap, 0)[k],
                  dt |-> dts[k], e |-> es[k]]]]

\* an OnlyChange file: the initial state and one row per frame; row k's flip
\* (i, j, spin) makes frame k + 1 out of frame k
OnlyChangeFile(initialKey, initial, flips, dts, es) ==
    [mark |-> "OnlyChange", initialKey |-> initialKey, initial |-> initial,
     rows |-> [k \in 1 .. Len(flips) |->
                 [i |-> flips[k][1], j |-> flips[k][2], spin |-> flips[k][3],
                  t |-> Times(dts, 0, 0)[k], dt |-> dts[k], e |-> es[k]]]]

NoMarkFile == [mark |-> "none", initialKey |-> FALSE, initial |-> <<>>, rows |-> <<>>]

\* section 8's scenario, the same with time skipped between frames, a constant-energy
\* run, a one-row file, an OnlyChange recording of the scenario, one without its
\* Initial State line, and a file with no type mark
Scenario == <<Lattice(0, 0, 0, 0), Lattice(1, 0, 0, 0), Lattice(1, 0, 0, 0)>>

Artifacts ==
    { FullStateFile(Scenario, <<1, 2, 1>>, 0, <<0, 1, 1>>),
      FullStateFile(Scenario, <<1, 2, 1>>, 1, <<1, 1, 1>>),
      FullStateFile(<<Lattice(0, 1, 0, 1)>>, <<1>>, 0, <<0>>),
      OnlyChangeFile(TRUE, Lattice(0, 0, 0, 0), <<<<0, 0, 1>>, <<0, 0, 1>>, <<0, 0, 0>>>>,
                     <<1, 2, 1>>, <<0, 1, 1>>),
      OnlyChangeFile(FALSE, Lattice(0, 0, 0, 0), <<<<0, 0, 1>>, <<0, 0, 0>>>>,
                     <<1, 2>>, <<0, 1>>),
      NoMarkFile }

\* the wider family of FullState files: every sequence of up to MaxFrames lattices,
\* with the dwell times DwellPattern(d, n), the same gap after every frame, and an
\* energy column that is a function of the frame's lattice; and OnlyChange files
Lattices == {Lattice(0, 0, 0, 0), Lattice(0, 1, 0, 1)}

DwellPattern(d, n) == [k \in 1 .. n |-> 1 + (((k - 1) * d) % MaxDwell)]

Gaps == {0, 1}

EnergyOf(lat) == lat[0][1]

AnalysisArtifacts ==
    UNION { { FullStateFile(states, DwellPattern(d, n), gap,
                            [k \in 1 .. n |-> EnergyOf(states[k])]) :
                  states \in [1 .. n -> Lattices] } :
            n \in 1 .. MaxFrames, d \in 0 .. MaxDwell - 1, gap \in Gaps }
    \cup
    { OnlyChangeFile(TRUE, Lattice(0, 0, 0, 0), [k \in 1 .. n |-> <<0, 0, k % 2>>],
                     DwellPattern(d, n), [k \in 1 .. n |-> 0]) :
          n \in 1 .. MaxFrames, d \in 0 .. MaxDwell - 1 }

GoodLogs == {MkLog("complete", rf) : rf \in 1 .. MaxRecordFreq}

\* a[:], a[::2], a[1:], a[:-1], a[1:0] (no frames), a[::-1], a[::0]
Slices ==
    { [start |-> None, stop |-> None, step |-> None],
      [start |-> None, stop |-> None, step |-> Some(2)],
      [start |-> Some(1), stop |-> None, step |-> None],
      [start |-> None, stop |-> Some(-1), step |-> None],
      [start |-> Some(1), stop |-> Some(0), step |-> None],
      [start |-> None, stop |-> None, step |-> Some(-1)],
      [start |-> None, stop |-> None, step |-> Some(0)] }

\* a[:], a[::2], a[1:]
DecodeSlices ==
    { [start |-> None, stop |-> None, step |-> None],
      [start |-> None, stop |-> None, step |-> Some(2)],
      [start |-> Some(1), stop |-> None, step |-> None] }

Cutoffs == {None, <<1>>, <<2, 1>>}

LambdaCutoffs == {None, <<1>>}

Init ==
    /\ results = <<>>
    /\ heap = <<>>
    /\ outcome = Outcome("none", 0, None, FALSE, None, "none")
    /\ calls = 0

\* one more call on a constructed result
Call == calls < MaxCalls /\ calls' = calls + 1

Next ==
    \/ \E l \in Logs : FromLog(l)
    \/ \E l \in Logs, a \in Artifacts : __init__(l, a) /\ UNCHANGED calls
    \/ \E self \in 1 .. MaxResults :
        \/ Call /\ \E a \in Artifacts : LoadTraj(self, a)
        \/ Call /\ recalculate_average_energy(self)
        \/ Call /\ get_average_energy(self)
        \/ Call /\ recalculate_heat_capacity(self)
        \/ Call /\ get_heat_capacity(self)
        \/ Call /\ recalculate_magnetization(self)
        \/ Call /\ get_magnetication(self)
        \/ Call /\ \E c \in Cutoffs : recalculate_spatial_correlation(self, c)
        \/ Call /\ \E c \in Cutoffs : get_spatial_correlation(self, c)
        \/ Call /\ \E c \in LambdaCutoffs : recalculate_lambda(self, c)
        \/ Call /\ \E c \in LambdaCutoffs : get_lambda(self, c)
        \/ Call /\ run_all_analysis(self)
        \/ Call /\ \E s \in Slices : __getitem__(self, s)

Spec == Init /\ [][Next]_vars

\* the decoder and the estimators on the wider family of files
NextDecode ==
    \/ \E l \in GoodLogs, a \in AnalysisArtifacts : __init__(l, a) /\ UNCHANGED calls
    \/ \E self \in 1 .. MaxResults :
        \/ Call /\ \E s \in DecodeSlices : __getitem__(self, s)
        \/ Call /\ recalculate_heat_capacity(self)
        \/ Call /\ recalculate_spatial_correlation(self, None)

SpecDecode == Init /\ [][NextDecode]_vars

\* ------------------------------------------------------------ properties
\* the trajectory invariants of a result: at least one frame, one entry per frame
\* in every array, timestamps non-decreasing, dwell times non-negative
ValidResult(r) ==
    /\ Len(r.trajT) >= 1
    /\ Len(r.trajIdx) = Len(r.trajT) /\ Len(r.traj) = Len(r.trajT)
    /\ Len(r.trajDt) = Len(r.trajT) /\ Len(r.trajEnergy) = Len(r.trajT)
    /\ \A k \in 1 .. Len(r.trajT) - 1 : r.trajT[k] <= r.trajT[k + 1]
    /\ \A k \in 1 .. Len(r.trajDt) : r.trajDt[k] >= 0

FileDwellSum(trajFile) == IntSum([k \in 1 .. Len(trajFile.rows) |-> trajFile.rows[k].dt])

Loaded == outcome.op = "load_traj" /\ outcome.exc = "none"

\* C1 as stated: after load_traj completes, an OnlyChange artifact gives
\* totalSampleTime = sum(dwellTime) and a FullState artifact gives
\* totalSampleTime = time[last] + dwellTime[last] - time[0]
C1_AsStated ==
    Loaded =>
        LET r == results[outcome.self]
        IN  /\ outcome.arg.mark = "OnlyChange" => r.totalSampleTime = IntSum(r.trajDt)
            /\ outcome.arg.mark = "FullState" =>
                   r.totalSampleTime
                       = r.trajT[Len(r.trajT)] + r.trajDt[Len(r.trajT)] - r.trajT[1]

\* C1 amended: after load_traj completes on a FullState artifact, totalSampleTime
\* is the sum of the file's dwell-time column, whatever time span the frames cover
C1_TotalSampleTime ==
    (Loaded /\ outcome.arg.mark = "FullState") =>
        /\ results[outcome.self].totalSampleTime = FileDwellSum(outcome.arg)
        /\ results[outcome.self].totalSampleTime = IntSum(results[outcome.self].trajDt)

\* a FullState file with time skipped between frames has been loaded: the sum of
\* the dwell times and the time span differ
C1_Witness ==
    /\ Loaded
    /\ outcome.arg.mark = "FullState"
    /\ totalTime(results[outcome.self]) # FileDwellSum(outcome.arg)

\* C2: every entry in a result's properties cache equals what the matching
\* recalculate operation computes from the result's current trajectory
C2_CacheFresh ==
    \A k \in DOMAIN results :
        LET r == results[k]
            d == heap[r.properties]
        IN  /\ "aveEnergy" \in DOMAIN d => d["aveEnergy"] = average_energy(r)
            /\ "heatCapacity" \in DOMAIN d => d["heatCapacity"] = heat_capacity(r)
            /\ "magnetization" \in DOMAIN d => d["magnetization"] = magnetization(r)
            /\ "spatialCorrelation" \in DOMAIN d =>
                   LET c == d["spatialCorrelation"][1]
                   IN  d["spatialCorrelation"]
                           = spatial_correlation(r, Cardinality(DOMAIN c),
                                                 Cardinality(DOMAIN c[0]))
            /\ "Lambda" \in DOMAIN d =>
                   d["Lambda"] = lambda(r, Cardinality(DOMAIN d["Lambda"][1]))

\* C3: a spatial-correlation or Lambda getter called with an entry already cached
\* under its name completes normally and returns the entry then stored under it
C3_CachedGetterReturns ==
    (outcome.op \in {"get_spatial_correlation", "get_lambda"} /\ outcome.cached) =>
        /\ outcome.exc = "none"
        /\ outcome.ret = Properties(outcome.self)[
               IF outcome.op = "get_lambda" THEN "Lambda" ELSE "spatialCorrelation"]

\* a log with the PARAMS line and, after it, a name = value line of a coercible
\* value for every enumerated field
CompleteLog(logFile) ==
    LET m == MarkerFrom(logFile, 1)
    IN  /\ m # 0
        /\ \A name \in DOMAIN PARAM_TRANS :
               \E k \in m + 1 .. Len(logFile) :
                   /\ logFile[k].kind = "param" /\ logFile[k].name = name
                   /\ Coerce(PARAM_TRANS[name], logFile[k].tok).exc = "none"

\* C4: from_log on a complete log succeeds with exactly the enumerated fields, also
\* when name = value lines of unrecognized names follow the marker
C4_ExtrasIgnored ==
    (outcome.op = "from_log" /\ CompleteLog(outcome.arg)) =>
        /\ outcome.exc = "none"
        /\ DOMAIN outcome.ret = DOMAIN PARAM_TRANS

\* C5: a __getitem__ call leaves every existing result and its cache as they were,
\* the view it returns is a new object whose cache is a new, empty dict, and any
\* other call changes no result but its receiver and no cache but its receiver's
C5_SliceLeavesSource ==
    [][ /\ \A k \in DOMAIN results :
              (outcome'.op = "__getitem__" \/ k # outcome'.self) =>
                  /\ k \in DOMAIN results'
                  /\ results'[k] = results[k]
                  /\ heap'[results[k].properties] = heap[results[k].properties]
        /\ (outcome'.op = "__getitem__" /\ outcome'.exc = "none" /\ calls' # calls) =>
              LET v == outcome'.ret[1]
              IN  /\ v \notin DOMAIN results
                  /\ v \in DOMAIN results'
                  /\ heap'[results'[v].properties] = <<>>
                  /\ \A k \in DOMAIN results :
                         results'[v].properties # results[k].properties
      ]_vars

\* a result whose cache holds an entry has just been sliced to fewer frames
C5_Witness ==
    /\ outcome.op = "__getitem__" /\ outcome.exc = "none"
    /\ Properties(outcome.self) # <<>>
    /\ Properties(outcome.ret[1]) = <<>>
    /\ Len(results[outcome.ret[1]].trajT) < Len(results[outcome.self].trajT)
    /\ Len(results[outcome.ret[1]].trajT) >= 1

\* the dense state sequence an OnlyChange file's rows describe: frame 1 is the
\* initial state, frame k + 1 is frame k with cell (i, j) of row k set to its spin
RECURSIVE Replay(_, _)
Replay(trajFile, n) ==
    IF n = 1 THEN <<trajFile.initial>>
    ELSE LET prev == Replay(trajFile, n - 1)
             row == trajFile.rows[n - 1]
         IN  Append(prev, [prev[n - 1] EXCEPT ![row.i][row.j] = row.spin])

\* C6: load_traj on an OnlyChange file with its Initial State line leaves, in
\* traj, the replay of the file's flips from the initial state
C6_OnlyChangeReplay ==
    (outcome.op = "load_traj" /\ outcome.arg.mark = "OnlyChange" /\ outcome.arg.initialKey) =>
        /\ outcome.exc = "none"
        /\ results[outcome.self].traj = Replay(outcome.arg, Len(outcome.arg.rows))

ConstantEnergy(r) == \A k \in 1 .. Len(r.trajEnergy) : r.trajEnergy[k] = r.trajEnergy[1]

\* C7: the heat capacity of a valid result whose energy is the same in every
\* frame is exactly 0
C7_ZeroHeatCapacity ==
    (/\ outcome.op = "recalculate_heat_capacity"
     /\ ValidResult(results[outcome.self])
     /\ ConstantEnergy(results[outcome.self])) =>
        outcome.ret[1] = Num(0)

SquaredSites(p, lat) == Arr([a \in Rows(p) |-> Arr([b \in Cols(p) |-> FSq(lat[a][b])])])

\* the time-weighted mean over frames of the per-frame spatial variance
FrameVarianceMean(r) ==
    LET p == r.params
    IN  calculate_mean(r, Arr([t \in 1 .. Len(r.traj) |->
            FSub(SiteMean(p, SquaredSites(p, AsFloat(p, r.traj[t]))),
                 FSq(SiteMean(p, AsFloat(p, r.traj[t]))))]))

\* mean_t(spatialMean(s_t^2)) - (sum(dwellTime) / totalSampleTime) * spatialMean(aveSigma^2)
ConnectedSelfCorrelation(r) ==
    LET p == r.params
        traj == Arr([t \in 1 .. Len(r.traj) |-> AsFloat(p, r.traj[t])])
        aveSigma == calculate_mean_sites(r, traj)
    IN  FSub(calculate_mean(r, Arr([t \in 1 .. Len(traj) |->
                 SiteMean(p, SquaredSites(p, traj[t]))])),
             FMul(FDiv(Num(IntSum(r.trajDt)), Num(r.totalSampleTime)),
                  SiteMean(p, SquaredSites(p, aveSigma))))

Correlated ==
    /\ outcome.op = "recalculate_spatial_correlation"
    /\ ValidResult(results[outcome.self])
    /\ results[outcome.self].totalSampleTime # 0

\* C8 as stated: C(0,0) is the time-weighted mean of the per-frame spatial variance
C8_AsStated ==
    Correlated => outcome.ret[0][0] = FrameVarianceMean(results[outcome.self])

\* C8 amended: C(0,0) is the time-weighted mean of the spatial mean of s_t^2 less
\* sum(dwellTime)/totalSampleTime times the spatial mean of the squared site-wise
\* time-weighted mean lattice
C8_SelfCorrelation ==
    Correlated => outcome.ret[0][0] = ConnectedSelfCorrelation(results[outcome.self])

\* C(0,0) has been computed on a valid result where it is not the mean per-frame
\* spatial variance, with a total that is not the sum of the dwell times
C8_Witness ==
    /\ Correlated
    /\ outcome.ret[0][0] # FrameVarianceMean(results[outcome.self])
    /\ results[outcome.self].totalSampleTime # IntSum(results[outcome.self].trajDt)
    /\ outcome.ret[0][0] # Num(0)

\* C9: recalculate_lambda and get_lambda complete for any cutoff and return a
\* Lambda array of length Nmax (the cutoff, or min(N//2, M//2) by default) with
\* Lambda[k] = (C(k,0) + C(0,k)) / 2
C9_LambdaAnyCutoff ==
    outcome.op \in {"recalculate_lambda", "get_lambda"} =>
        LET r == results[outcome.self]
            half == IF r.params.N \div 2 < r.params.M \div 2
                    THEN r.params.N \div 2 ELSE r.params.M \div 2
            Nmax == IF outcome.arg = None THEN half ELSE outcome.arg[1]
        IN  /\ outcome.exc = "none"
            /\ DOMAIN outcome.ret[1] = 0 .. Nmax - 1
            /\ \A k \in 0 .. Nmax - 1 :
                   outcome.ret[1][k]
                       = FDiv(FAdd(_calculate_spatial_correlation(r, k, 0)[1],
                                   _calculate_spatial_correlation(r, 0, k)[1]), Num(2))

IdentitySlice == [start |-> None, stop |-> None, step |-> None]

\* C10: result[:] has the totalSampleTime of result
C10_IdentitySliceKeepsTotal ==
    (outcome.op = "__getitem__" /\ outcome.arg = IdentitySlice /\ outcome.exc = "none") =>
        results[outcome.ret[1]].totalSampleTime = results[outcome.self].totalSampleTime
====
